---- MODULE Spec2Model ----
(***************************************************************************)
(* Model of the two cdiff patch analyzers of fishan/cdiff:                 *)
(*   tools/analyze_patch.py         (v1.0,   "analyzer 1", variable a1)    *)
(*   tools/analyze_patch_saving.py  (v2.0.0, "analyzer 2", variable a2)    *)
(* A line is a sequence of characters; a character is a one-element        *)
(* string, except "U+E9" which stands for a two-byte UTF-8 letter.         *)
(* Both analyzers read the same file; each run is: open, one step per      *)
(* line of the for loop, then the post-analysis that computes the report.  *)
(***************************************************************************)
EXTENDS Integers, Sequences, FiniteSets, TLC

\* ------------------------------------------------------------------------
\* Bounds of the model
\* ------------------------------------------------------------------------
MaxLines == 3

\* ------------------------------------------------------------------------
\* Characters and the character classes of Python's re module
\* ------------------------------------------------------------------------
DigitChars == {"0", "1", "2"}

\* \w (and so [\w\d]): letters, digits, underscore, non-ASCII letters
WordChars == DigitChars \cup {"x", "y", "h", "e", "l", "o", "a", "d",
                              "A", "D", "M", "z", "_", "U+E9"}

\* \s: the model's whitespace characters
SpaceChars == {" ", "\t"}

\* [\w\d,-] of the standalone-command expressions
CmdIdChars == WordChars \cup {",", "-"}

\* len(c.encode('utf-8')) of one character
CharBytes(c) == IF c = "U+E9" THEN 2 ELSE 1

RECURSIVE Utf8Len(_)
\* len(s.encode('utf-8'))
Utf8Len(s) == IF s = <<>> THEN 0 ELSE CharBytes(Head(s)) + Utf8Len(Tail(s))

\* int() of one decimal digit
DigitVal(c) == CASE c = "0" -> 0 [] c = "1" -> 1 [] c = "2" -> 2

RECURSIVE IntOf(_)
\* int(s) of a non-empty string of digits
IntOf(s) == IF Len(s) = 1 THEN DigitVal(s[1])
            ELSE 10 * IntOf(SubSeq(s, 1, Len(s) - 1)) + DigitVal(s[Len(s)])

MinOf(S) == CHOOSE m \in S : \A n \in S : m <= n

\* Length of the longest run of characters of class S that starts at
\* position i of s: what a greedy S* consumes there.
RunLen(S, s, i) ==
    LET stops == {j \in i..Len(s) : s[j] \notin S}
    IN  IF stops = {} THEN Len(s) - i + 1 ELSE MinOf(stops) - i

\* The rest of s from position i on (s[i-1:] in Python)
From(s, i) == SubSeq(s, i, Len(s))

\* ------------------------------------------------------------------------
\* The regular expressions of the analyzers
\* ------------------------------------------------------------------------
\* def_regex = ^(@[\w\d]+)\s(.*)$ with DOTALL
DefMatch(line) ==
    /\ Len(line) >= 3
    /\ line[1] = "@"
    /\ RunLen(WordChars, line, 2) >= 1
    /\ 2 + RunLen(WordChars, line, 2) <= Len(line)
    /\ line[2 + RunLen(WordChars, line, 2)] \in SpaceChars

\* group(1) of def_regex
DefName(line) == SubSeq(line, 1, 1 + RunLen(WordChars, line, 2))

\* group(2) of def_regex
DefContent(line) == From(line, 3 + RunLen(WordChars, line, 2))

\* def_regex_no_content = ^(@[\w\d]+)$
DefNoContentMatch(line) ==
    /\ Len(line) >= 2
    /\ line[1] = "@"
    /\ RunLen(WordChars, line, 2) = Len(line) - 1

\* block_header_regex = ^([\w\d]+)\s+([AD]\+)\s+(\d+)$
BlockHeaderMatch(line) ==
    LET w  == RunLen(WordChars, line, 1)
        s1 == RunLen(SpaceChars, line, w + 1)
        p  == w + s1 + 1
        s2 == RunLen(SpaceChars, line, p + 2)
        q  == p + 2 + s2
    IN  /\ w >= 1
        /\ s1 >= 1
        /\ p + 1 <= Len(line)
        /\ line[p] \in {"A", "D"}
        /\ line[p + 1] = "+"
        /\ s2 >= 1
        /\ q <= Len(line)
        /\ RunLen(DigitChars, line, q) = Len(line) - q + 1

\* int(block_match.group(3))
BlockHeaderCount(line) ==
    LET w  == RunLen(WordChars, line, 1)
        s1 == RunLen(SpaceChars, line, w + 1)
        p  == w + s1 + 1
        s2 == RunLen(SpaceChars, line, p + 2)
    IN  IntOf(From(line, p + 2 + s2))

\* re.match(r'^[\w\d,-]+\s+[ad].*$') or re.match(r'^[\w\d,-]+\s+[MR].*$')
CommandMatch(line) ==
    LET w == RunLen(CmdIdChars, line, 1)
        s == RunLen(SpaceChars, line, w + 1)
    IN  /\ w >= 1
        /\ s >= 1
        /\ w + s + 1 <= Len(line)
        /\ line[w + s + 1] \in {"a", "d", "M", "R"}

RECURSIVE UsagesFrom(_, _)
\* var_usage_regex.findall: the tokens @[\w\d]+ of s from position i on,
\* left to right, each with its sigil
UsagesFrom(s, i) ==
    IF i > Len(s) THEN <<>>
    ELSE IF s[i] = "@" /\ RunLen(WordChars, s, i + 1) >= 1
         THEN <<SubSeq(s, i, i + RunLen(WordChars, s, i + 1))>>
              \o UsagesFrom(s, i + 1 + RunLen(WordChars, s, i + 1))
         ELSE UsagesFrom(s, i + 1)

Usages(s) == UsagesFrom(s, 1)

RECURSIVE GapsFrom(_, _)
\* literal_gap_regex.findall: group(1) of every #(\d+)\s of s from i on
GapsFrom(s, i) ==
    IF i > Len(s) THEN <<>>
    ELSE LET k == RunLen(DigitChars, s, i + 1)
         IN  IF /\ s[i] = "#"
                /\ k >= 1
                /\ i + 1 + k <= Len(s)
                /\ s[i + 1 + k] \in SpaceChars
             THEN <<SubSeq(s, i + 1, i + k)>> \o GapsFrom(s, i + k + 2)
             ELSE GapsFrom(s, i + 1)

Gaps(s) == GapsFrom(s, 1)

RECURSIVE GapOverheadWithLiteral(_)
\* Mutant: the declared length of the literal is charged with its header
GapOverheadWithLiteral(gaps) ==
    IF gaps = <<>> THEN 0
    ELSE (Len(Head(gaps)) + 2 + IntOf(Head(gaps)))
         + GapOverheadWithLiteral(Tail(gaps))

RECURSIVE GapOverhead(_)
\* sum of len(f"#{gap_len_str} ") over the gaps found
GapOverhead(gaps) ==
    IF gaps = <<>> THEN 0 ELSE (Len(Head(gaps)) + 2) + GapOverhead(Tail(gaps))

\* line.startswith(('a ', 'd ', 'A ', 'D '))
HasBlockPrefix(line) ==
    /\ Len(line) >= 2
    /\ line[1] \in {"a", "d", "A", "D"}
    /\ line[2] = " "

\* Mutant: the first two characters are dropped from every block-body line
BlockContentAlwaysStripped(line) == From(line, 3)

\* content of a block-body line: line[2:] when the prefix is present
BlockContent(line) == IF HasBlockPrefix(line) THEN From(line, 3) ELSE line

\* full_line_heuristic_regex = ^(\s+.*|.*[};])$
FullLineHeuristicMatch(content) ==
    /\ Len(content) >= 1
    /\ \/ content[1] \in SpaceChars
       \/ content[Len(content)] \in {"}", ";"}

\* len(content) > 5 and full_line_heuristic_regex.match(content)
IsFullLine(content) == Len(content) > 5 /\ FullLineHeuristicMatch(content)

\* ------------------------------------------------------------------------
\* The input files of the model
\* ------------------------------------------------------------------------
Marker == <<"~">>

\* "@x hello": a definition with fragment content
LDefHello == <<"@", "x", " ", "h", "e", "l", "l", "o">>
\* "@x  @y #1 U+E9;": a definition of the same id with full-line content,
\* which holds a reference and a gap header
LDefFull == <<"@", "x", " ", " ", "@", "y", " ", "#", "1", " ", "U+E9", ";">>
\* "@y": a definition without separator and content
LDefBare == <<"@", "y">>
\* "@y ": a definition with empty content
LDefEmpty == <<"@", "y", " ">>
\* "1 A+ 1", "2 D+ 2", "1 D+ 0": block headers
LHeader1 == <<"1", " ", "A", "+", " ", "1">>
LHeader2 == <<"2", "\t", "D", "+", " ", "2">>
LHeader0 == <<"1", " ", "D", "+", " ", "0">>
\* "a @x": a block-body line with prefix and one reference
LBodyRef == <<"a", " ", "@", "x">>
\* "1,2 a @x@y #1 z": a standalone command, two references and a gap
LCmd == <<"1", ",", "2", " ", "a", " ", "@", "x", "@", "y", " ", "#", "1", " ", "z">>
\* "2 M @y": a standalone command with one reference
LCmdM == <<"2", " ", "M", " ", "@", "y">>
\* "#22 @x": matches nothing at top level
LOther == <<"#", "2", "2", " ", "@", "x">>
LEmpty == <<>>

LinePool == {Marker, LDefHello, LDefFull, LDefBare, LDefEmpty, LHeader1,
             LHeader2, LHeader0, LBodyRef, LCmd, LCmdM, LOther, LEmpty}

\* The files: up to MaxLines lines of the pool
Files == UNION {[1..n -> LinePool] : n \in 0..MaxLines}

RECURSIVE SumBytes(_)
\* sum of the encoded lengths of the lines
SumBytes(ls) == IF ls = <<>> THEN 0 ELSE Utf8Len(Head(ls)) + SumBytes(Tail(ls))

\* Number of lines of the file that end with a line terminator
TerminatedLines(ls, final) ==
    IF ls = <<>> THEN 0 ELSE IF final THEN Len(ls) ELSE Len(ls) - 1

\* os.path.getsize: the bytes of the lines and of their terminators
FileSize(ls, eolb, final) == SumBytes(ls) + eolb * TerminatedLines(ls, final)

VARIABLES
    lines,          \* f.readlines(), each line without its terminator
    eol_bytes,      \* bytes of one line terminator in the file: 1 (\n) or 2 (\r\n)
    final_newline,  \* whether the last line of the file is terminated
    readable,       \* whether the file can be opened and read
    a1,             \* the run of analyze_patch.py
    a2,             \* the run of analyze_patch_saving.py
    prev1,          \* what an earlier run of analyze_patch.py has printed
    b58             \* a call of decodeBase58

vars == <<lines, eol_bytes, final_newline, readable, a1, a2, prev1, b58>>

\* no earlier run / no call
NoRun == [pc |-> "none"]
NoCall == [pc |-> "idle"]

\* An empty mapping (dict(), defaultdict(int))
EmptyMap == [v \in {} |-> 0]

Stats1Init ==
    [pc |-> "start", line_num |-> 0, kinds |-> <<>>,
     total_lines |-> 0, total_size_b |-> 0, compression_flag |-> FALSE,
     definition_lines |-> 0, definition_size_b |-> 0,
     definition_at_overhead_b |-> 0,
     command_lines |-> 0, command_size_b |-> 0,
     command_at_overhead_b |-> 0, literal_gap_overhead_b |-> 0,
     block_prefix_overhead_b |-> 0,
     other_lines |-> 0, other_size_b |-> 0,
     defined_vars |-> EmptyMap, used_vars_count |-> EmptyMap,
     in_block |-> FALSE, block_lines_remaining |-> 0,
     unused_vars |-> {}, unused_size_b |-> 0, unused_shown |-> <<>>,
     total_overhead |-> 0]

Stats2Init ==
    [pc |-> "start", line_num |-> 0, kinds |-> <<>>,
     total_lines |-> 0, total_size_b |-> 0, compression_flag |-> FALSE,
     definition_lines |-> 0, definition_size_b |-> 0,
     definition_at_overhead_b |-> 0,
     command_lines |-> 0, command_size_b |-> 0,
     literal_gap_overhead_b |-> 0, block_prefix_overhead_b |-> 0,
     other_lines |-> 0, other_size_b |-> 0,
     total_reference_cost_b |-> 0, total_replaced_bytes |-> 0,
     full_line_vars |-> {}, fragment_vars |-> {},
     full_line_replaced_b |-> 0, full_line_ref_cost_b |-> 0,
     fragment_replaced_b |-> 0, fragment_ref_cost_b |-> 0,
     defined_vars |-> EmptyMap, used_vars_count |-> EmptyMap,
     in_block |-> FALSE, block_lines_remaining |-> 0,
     parsing_definitions |-> TRUE,
     def_cost_full_b |-> 0, def_cost_fragment_b |-> 0,
     unused_vars |-> {}, unused_size_b |-> 0, total_overhead |-> 0,
     net_savings_full |-> 0, net_savings_fragment |-> 0,
     total_cost |-> 0, total_savings |-> 0]

Init ==
    /\ lines \in Files
    /\ eol_bytes \in {1, 2}
    /\ final_newline \in BOOLEAN
    \* a file without final terminator ends with a non-empty line,
    \* and the model has no \r\n file without final terminator
    /\ final_newline = FALSE => (lines # <<>> /\ lines[Len(lines)] # <<>>
                                 /\ eol_bytes = 1)
    /\ lines = <<>> => eol_bytes = 1
    \* the file is there and can be read, or it is missing, may not be
    \* opened or is no UTF-8 text
    /\ readable \in BOOLEAN
    /\ a1 = Stats1Init
    /\ a2 = Stats2Init
    /\ prev1 = NoRun
    /\ b58 = NoCall

\* ------------------------------------------------------------------------
\* Steps common to both analyzers
\* ------------------------------------------------------------------------
\* The line the loop is at, after line.rstrip('\n')
Cur(a) == lines[a.line_num + 1]

InLoop(a) == a.pc = "loop" /\ a.line_num < Len(lines)

\* Mutant: the marker is accepted on any line, not on the first only
IsMarkerLineAnywhere(a) == Cur(a) = Marker

\* line_num == 0 and line == '~'
IsMarkerLine(a) == a.line_num = 0 /\ Cur(a) = Marker

\* stats['total_lines'] += 1, and the loop moves to the next line; kinds
\* records which branch of the loop body handled the line
Advance(a, kind) ==
    [a EXCEPT !.total_lines = @ + 1, !.line_num = @ + 1,
              !.kinds = Append(@, kind)]

\* the try block: getsize and readlines
OpenFile(a) ==
    [a EXCEPT !.pc = "loop",
              !.total_size_b = FileSize(lines, eol_bytes, final_newline)]

\* Mutant: the except branch prints the error and goes on to the loop
OpenFailedNoReturn(a, sized) == [a EXCEPT !.pc = "loop"]

\* the except branch: print the error and return. getsize has raised
\* (sized = FALSE), or it has set total_size_b and open or readlines has
\* raised (sized = TRUE)
OpenFailed(a, sized) ==
    [a EXCEPT !.pc = "error",
              !.total_size_b = IF sized
                               THEN FileSize(lines, eol_bytes, final_newline)
                               ELSE @]

\* used_vars_count[v] += 1 on a defaultdict(int)
Increment(cnt, v) ==
    [u \in DOMAIN cnt \cup {v} |->
        IF u = v THEN (IF v \in DOMAIN cnt THEN cnt[v] + 1 ELSE 1) ELSE cnt[u]]

RECURSIVE CountUsages(_, _)
\* for var_id in usages: used_vars_count[f"@{var_id}"] += 1
CountUsages(cnt, usages) ==
    IF usages = <<>> THEN cnt
    ELSE CountUsages(Increment(cnt, Head(usages)), Tail(usages))

\* Mutant: the block is closed by a test made before the decrement
CloseBlockLineLate(a) ==
    [a EXCEPT !.block_lines_remaining = @ - 1,
              !.in_block = (a.block_lines_remaining # 0)]

\* block_lines_remaining -= 1; if block_lines_remaining == 0: in_block = False
CloseBlockLine(a) ==
    [a EXCEPT !.block_lines_remaining = @ - 1,
              !.in_block = (a.block_lines_remaining - 1 # 0)]

\* Mutant: every block header opens a block, also one that declares 0 lines
OpenBlockAlways(a, line) ==
    [a EXCEPT !.command_lines = @ + 1,
              !.command_size_b = @ + Utf8Len(line),
              !.block_lines_remaining = BlockHeaderCount(line),
              !.in_block = TRUE]

\* Mutant: the block header is not counted as a command line
OpenBlockUncounted(a, line) ==
    [a EXCEPT !.command_size_b = @ + Utf8Len(line),
              !.block_lines_remaining = BlockHeaderCount(line),
              !.in_block = (BlockHeaderCount(line) > 0)]

\* block_lines_remaining = int(group(3)); in_block = block_lines_remaining > 0
OpenBlock(a, line) ==
    [a EXCEPT !.command_lines = @ + 1,
              !.command_size_b = @ + Utf8Len(line),
              !.block_lines_remaining = BlockHeaderCount(line),
              !.in_block = (BlockHeaderCount(line) > 0)]

\* Mutant: a line of no known shape is scanned for literal gaps as well
CountOtherScanned(a, line) ==
    [a EXCEPT !.other_lines = @ + 1, !.other_size_b = @ + Utf8Len(line),
              !.literal_gap_overhead_b = @ + GapOverhead(Gaps(line))]

\* stats['other_lines'] += 1; stats['other_size_b'] += line_len_b
CountOther(a, line) ==
    [a EXCEPT !.other_lines = @ + 1, !.other_size_b = @ + Utf8Len(line)]

RECURSIVE DeadWeightWithId(_, _)
\* Mutant: the dead weight also charges one byte for the id
DeadWeightWithId(defs, S) ==
    IF S = {} THEN 0
    ELSE LET v == CHOOSE u \in S : TRUE
         IN  (1 + 1 + 1 + Utf8Len(defs[v])) + DeadWeightWithId(defs, S \ {v})

RECURSIVE DeadWeight(_, _)
\* sum over unused ids of 1 + 1 + len(defined_vars[var_name].encode('utf-8'))
DeadWeight(defs, S) ==
    IF S = {} THEN 0
    ELSE LET v == CHOOSE u \in S : TRUE
         IN  (1 + 1 + Utf8Len(defs[v])) + DeadWeight(defs, S \ {v})

\* Mutant: the line is measured in characters, not in encoded bytes
LineLenChars(line) == Len(line)

\* line_len_b = len(line.encode('utf-8'))
LineLenB(line) == Utf8Len(line)

\* the 2 bytes of H1 when the block-body line starts with a prefix
PrefixOverhead(line) == IF HasBlockPrefix(line) THEN 2 ELSE 0

\* defined_vars[var_name] = content
Bind(defs, name, content) ==
    [u \in DOMAIN defs \cup {name} |-> IF u = name THEN content ELSE defs[u]]

\* unused_vars = defined_set - used_set
UnusedVars(a) == DOMAIN a.defined_vars \ DOMAIN a.used_vars_count

\* ------------------------------------------------------------------------
\* analyze_patch.py (v1.0): the branches of the loop body
\* ------------------------------------------------------------------------
Marker1(a) == [Advance(a, "marker") EXCEPT !.compression_flag = TRUE]

BlockBody1(a, line) ==
    LET content == BlockContent(line)
        usages  == Usages(content)
    IN  CloseBlockLine(
          [Advance(a, "body") EXCEPT
             !.command_lines = @ + 1,
             !.command_size_b = @ + LineLenB(line),
             !.block_prefix_overhead_b = @ + PrefixOverhead(line),
             !.used_vars_count = CountUsages(@, usages),
             !.command_at_overhead_b = @ + Len(usages),
             !.literal_gap_overhead_b = @ + GapOverhead(Gaps(content))])

\* Mutant: the content of a definition is scanned for references
Definition1Scanned(a, line) ==
    [Advance(a, "def") EXCEPT
       !.defined_vars = Bind(@, DefName(line), DefContent(line)),
       !.definition_lines = @ + 1,
       !.definition_size_b = @ + LineLenB(line),
       !.definition_at_overhead_b = @ + 1,
       !.used_vars_count = CountUsages(@, Usages(DefContent(line))),
       !.command_at_overhead_b = @ + Len(Usages(DefContent(line)))]

Definition1(a, line) ==
    [Advance(a, "def") EXCEPT
       !.defined_vars = Bind(@, DefName(line), DefContent(line)),
       !.definition_lines = @ + 1,
       !.definition_size_b = @ + LineLenB(line),
       !.definition_at_overhead_b = @ + 1]

BlockHeader1(a, line) == OpenBlock(Advance(a, "header"), line)

Command1(a, line) ==
    LET usages == Usages(line)
    IN  [Advance(a, "cmd") EXCEPT
           !.command_lines = @ + 1,
           !.command_size_b = @ + LineLenB(line),
           !.used_vars_count = CountUsages(@, usages),
           !.command_at_overhead_b = @ + Len(usages),
           !.literal_gap_overhead_b = @ + GapOverhead(Gaps(line))]

Other1(a, line) == CountOther(Advance(a, "other"), line)

\* the number of stray ids shown at most
SampleLen == 10

\* The orders in which the elements of the set S can come out of an
\* iteration: the order of a set of str follows the hashes of its
\* elements, which are salted anew in every interpreter process
IterationOrders(S) ==
    {order \in [1..Cardinality(S) -> S] :
        \A i, j \in 1..Cardinality(S) : i # j => order[i] # order[j]}

\* ', '.join(list(unused_vars)[:10]) for more than 10 stray ids,
\* ', '.join(unused_vars) otherwise
Shown(order) ==
    IF Len(order) > SampleLen THEN SubSeq(order, 1, SampleLen) ELSE order

\* the post-analysis: the stray variables, listed in the order the set
\* yields them, and the overhead total
Report1(a, order) ==
    [a EXCEPT
       !.pc = "done",
       !.unused_vars = UnusedVars(a),
       !.unused_size_b = DeadWeight(a.defined_vars, UnusedVars(a)),
       !.unused_shown = Shown(order),
       !.total_overhead = a.block_prefix_overhead_b
                          + a.definition_at_overhead_b
                          + a.command_at_overhead_b
                          + a.literal_gap_overhead_b]

\* what a step of analyzer 1 leaves alone
Frame1 == UNCHANGED <<lines, eol_bytes, final_newline, readable, a2, prev1, b58>>

V1Open == a1.pc = "start" /\ readable /\ a1' = OpenFile(a1) /\ Frame1

V1OpenFail ==
    /\ a1.pc = "start" /\ ~readable
    /\ \E sized \in BOOLEAN : a1' = OpenFailed(a1, sized)
    /\ Frame1

V1Marker == InLoop(a1) /\ IsMarkerLine(a1) /\ a1' = Marker1(a1) /\ Frame1

V1BlockBody ==
    /\ InLoop(a1) /\ ~IsMarkerLine(a1)
    /\ a1.in_block
    /\ a1' = BlockBody1(a1, Cur(a1))
    /\ Frame1

V1Definition ==
    /\ InLoop(a1) /\ ~IsMarkerLine(a1)
    /\ ~a1.in_block
    /\ DefMatch(Cur(a1))
    /\ a1' = Definition1(a1, Cur(a1))
    /\ Frame1

V1BlockHeader ==
    /\ InLoop(a1) /\ ~IsMarkerLine(a1)
    /\ ~a1.in_block
    /\ ~DefMatch(Cur(a1))
    /\ BlockHeaderMatch(Cur(a1))
    /\ a1' = BlockHeader1(a1, Cur(a1))
    /\ Frame1

V1Command ==
    /\ InLoop(a1) /\ ~IsMarkerLine(a1)
    /\ ~a1.in_block
    /\ ~DefMatch(Cur(a1))
    /\ ~BlockHeaderMatch(Cur(a1))
    /\ CommandMatch(Cur(a1))
    /\ a1' = Command1(a1, Cur(a1))
    /\ Frame1

V1Other ==
    /\ InLoop(a1) /\ ~IsMarkerLine(a1)
    /\ ~a1.in_block
    /\ ~DefMatch(Cur(a1))
    /\ ~BlockHeaderMatch(Cur(a1))
    /\ ~CommandMatch(Cur(a1))
    /\ a1' = Other1(a1, Cur(a1))
    /\ Frame1

V1Report ==
    /\ a1.pc = "loop" /\ a1.line_num = Len(lines)
    /\ \E order \in IterationOrders(UnusedVars(a1)) : a1' = Report1(a1, order)
    /\ Frame1

\* The tool is run once more on the same file: what the run has printed
\* is kept, and the new run starts from the constructed state
V1Again ==
    /\ a1.pc = "done" /\ prev1 = NoRun
    /\ prev1' = a1
    /\ a1' = Stats1Init
    /\ UNCHANGED <<lines, eol_bytes, final_newline, readable, a2, b58>>

\* ------------------------------------------------------------------------
\* analyze_patch_saving.py (v2.0.0): the branches of the loop body
\* ------------------------------------------------------------------------
\* Mutant: the definitions phase never ends
InDefinitionsAlways(a) == TRUE

\* if parsing_definitions:
InDefinitions(a) == a.parsing_definitions

\* Mutant: a reference costs its sigil only (the v1 accounting)
RefCostSigilOnly(token) == 1

\* ref_cost_b = len(full_var_name.encode('utf-8'))
RefCost(token) == Utf8Len(token)

\* Mutant: an occurrence of an id that has no definition is charged to the
\* fragment bucket
Usage2UndefinedAsFragment(a, token) ==
    LET counted == [a EXCEPT
                      !.used_vars_count = Increment(@, token),
                      !.total_reference_cost_b = @ + RefCost(token)]
    IN  IF token \in a.full_line_vars
        THEN [counted EXCEPT
                !.total_replaced_bytes = @ + Utf8Len(a.defined_vars[token]),
                !.full_line_replaced_b = @ + Utf8Len(a.defined_vars[token]),
                !.full_line_ref_cost_b = @ + RefCost(token)]
        ELSE LET replaced_b == IF token \in DOMAIN a.defined_vars
                               THEN Utf8Len(a.defined_vars[token]) ELSE 0
             IN  [counted EXCEPT
                    !.total_replaced_bytes = @ + replaced_b,
                    !.fragment_replaced_b = @ + replaced_b,
                    !.fragment_ref_cost_b = @ + RefCost(token)]

\* Mutant: the content of an id is credited at its first occurrence only
Usage2ReplacedOnce(a, token) ==
    LET counted == [a EXCEPT
                      !.used_vars_count = Increment(@, token),
                      !.total_reference_cost_b = @ + RefCost(token)]
        replaced_b == IF token \in DOMAIN a.used_vars_count
                      THEN 0 ELSE Utf8Len(a.defined_vars[token])
    IN  IF token \in DOMAIN a.defined_vars
        THEN IF token \in a.full_line_vars
             THEN [counted EXCEPT
                     !.total_replaced_bytes = @ + replaced_b,
                     !.full_line_replaced_b = @ + replaced_b,
                     !.full_line_ref_cost_b = @ + RefCost(token)]
             ELSE [counted EXCEPT
                     !.total_replaced_bytes = @ + replaced_b,
                     !.fragment_replaced_b = @ + replaced_b,
                     !.fragment_ref_cost_b = @ + RefCost(token)]
        ELSE counted

\* The body of "for full_var_name in usages" for one occurrence
Usage2(a, token) ==
    LET counted == [a EXCEPT
                      !.used_vars_count = Increment(@, token),
                      !.total_reference_cost_b = @ + RefCost(token)]
        replaced_b == Utf8Len(a.defined_vars[token])
    IN  IF token \in DOMAIN a.defined_vars
        THEN IF token \in a.full_line_vars
             THEN [counted EXCEPT
                     !.total_replaced_bytes = @ + replaced_b,
                     !.full_line_replaced_b = @ + replaced_b,
                     !.full_line_ref_cost_b = @ + RefCost(token)]
             ELSE [counted EXCEPT
                     !.total_replaced_bytes = @ + replaced_b,
                     !.fragment_replaced_b = @ + replaced_b,
                     !.fragment_ref_cost_b = @ + RefCost(token)]
        ELSE counted

RECURSIVE ScanUsages2(_, _)
\* for full_var_name in usages: ...
ScanUsages2(a, usages) ==
    IF usages = <<>> THEN a
    ELSE ScanUsages2(Usage2(a, Head(usages)), Tail(usages))

\* Mutant: the definitions phase is never closed
EndDefinitionsNever(a) == a

\* parsing_definitions = False, reached by every line that is no definition
EndDefinitions(a) == [a EXCEPT !.parsing_definitions = FALSE]

Marker2(a) == [Advance(a, "marker") EXCEPT !.compression_flag = TRUE]

\* the def_regex branch
Definition2(a, line) ==
    LET var_name == DefName(line)
        content  == DefContent(line)
    IN  [Advance(a, "def") EXCEPT
           !.defined_vars = Bind(@, var_name, content),
           !.definition_lines = @ + 1,
           !.definition_size_b = @ + LineLenB(line),
           !.definition_at_overhead_b = @ + 1,
           !.full_line_vars = IF IsFullLine(content)
                              THEN @ \cup {var_name} ELSE @,
           !.fragment_vars = IF IsFullLine(content)
                             THEN @ ELSE @ \cup {var_name}]

\* the def_regex_no_content branch
DefinitionNoContent2(a, line) ==
    [Advance(a, "def") EXCEPT
       !.defined_vars = Bind(@, line, <<>>),
       !.definition_lines = @ + 1,
       !.definition_size_b = @ + LineLenB(line),
       !.definition_at_overhead_b = @ + 1,
       !.fragment_vars = @ \cup {line}]

BlockBody2(a, line) ==
    LET content == BlockContent(line)
        counted == [Advance(EndDefinitions(a), "body") EXCEPT
                      !.command_lines = @ + 1,
                      !.command_size_b = @ + LineLenB(line),
                      !.block_prefix_overhead_b = @ + PrefixOverhead(line)]
        scanned == ScanUsages2(counted, Usages(content))
    IN  CloseBlockLine(
          [scanned EXCEPT
             !.literal_gap_overhead_b = @ + GapOverhead(Gaps(content))])

BlockHeader2(a, line) == OpenBlock(Advance(EndDefinitions(a), "header"), line)

Command2(a, line) ==
    LET counted == [Advance(EndDefinitions(a), "cmd") EXCEPT
                      !.command_lines = @ + 1,
                      !.command_size_b = @ + LineLenB(line)]
        scanned == ScanUsages2(counted, Usages(line))
    IN  [scanned EXCEPT
           !.literal_gap_overhead_b = @ + GapOverhead(Gaps(line))]

Other2(a, line) == CountOther(Advance(EndDefinitions(a), "other"), line)

RECURSIVE DefCostNoSeparator(_, _)
\* Mutant: the cost of a definition leaves out the separator byte
DefCostNoSeparator(defs, S) ==
    IF S = {} THEN 0
    ELSE LET v == CHOOSE u \in S : TRUE
         IN  (1 + Utf8Len(defs[v])) + DefCostNoSeparator(defs, S \ {v})

RECURSIVE DefCost(_, _)
\* sum of 1 + 1 + len(content.encode('utf-8')) over the ids of S
DefCost(defs, S) ==
    IF S = {} THEN 0
    ELSE LET v == CHOOSE u \in S : TRUE
         IN  (1 + 1 + Utf8Len(defs[v])) + DefCost(defs, S \ {v})

\* the post-analysis: definition cost by type, stray variables, overhead
\* total and the efficiency analysis
Report2(a) ==
    LET ids      == DOMAIN a.defined_vars
        costFull == DefCost(a.defined_vars, ids \cap a.full_line_vars)
        costFrag == DefCost(a.defined_vars, ids \ a.full_line_vars)
        totFull  == costFull + a.full_line_ref_cost_b
        totFrag  == costFrag + a.fragment_ref_cost_b
        netFull  == a.full_line_replaced_b - totFull
        netFrag  == a.fragment_replaced_b - totFrag
    IN  [a EXCEPT
           !.pc = "done",
           !.def_cost_full_b = costFull,
           !.def_cost_fragment_b = costFrag,
           !.unused_vars = UnusedVars(a),
           !.unused_size_b = DeadWeight(a.defined_vars, UnusedVars(a)),
           !.total_overhead = a.block_prefix_overhead_b
                              + a.definition_at_overhead_b
                              + a.total_reference_cost_b
                              + a.literal_gap_overhead_b,
           !.net_savings_full = netFull,
           !.net_savings_fragment = netFrag,
           !.total_cost = totFull + totFrag,
           !.total_savings = netFull + netFrag]

\* the line is taken by one of the two definition branches
TakenAsDefinition2(a) ==
    InDefinitions(a) /\ (DefMatch(Cur(a)) \/ DefNoContentMatch(Cur(a)))

\* The two tools are run one after the other on the file: analyzer 2
\* starts when analyzer 1 has returned.
Returned1 == a1.pc \in {"done", "error"}

\* what a step of analyzer 2 leaves alone
Frame2 == UNCHANGED <<lines, eol_bytes, final_newline, readable, a1, prev1, b58>>

V2Open == Returned1 /\ a2.pc = "start" /\ readable /\ a2' = OpenFile(a2) /\ Frame2

V2OpenFail ==
    /\ Returned1 /\ a2.pc = "start" /\ ~readable
    /\ \E sized \in BOOLEAN : a2' = OpenFailed(a2, sized)
    /\ Frame2

V2Marker == InLoop(a2) /\ IsMarkerLine(a2) /\ a2' = Marker2(a2) /\ Frame2

V2Definition ==
    /\ InLoop(a2) /\ ~IsMarkerLine(a2)
    /\ InDefinitions(a2)
    /\ DefMatch(Cur(a2))
    /\ a2' = Definition2(a2, Cur(a2))
    /\ Frame2

V2DefinitionNoContent ==
    /\ InLoop(a2) /\ ~IsMarkerLine(a2)
    /\ InDefinitions(a2)
    /\ ~DefMatch(Cur(a2))
    /\ DefNoContentMatch(Cur(a2))
    /\ a2' = DefinitionNoContent2(a2, Cur(a2))
    /\ Frame2

V2BlockBody ==
    /\ InLoop(a2) /\ ~IsMarkerLine(a2)
    /\ ~TakenAsDefinition2(a2)
    /\ a2.in_block
    /\ a2' = BlockBody2(a2, Cur(a2))
    /\ Frame2

V2BlockHeader ==
    /\ InLoop(a2) /\ ~IsMarkerLine(a2)
    /\ ~TakenAsDefinition2(a2)
    /\ ~a2.in_block
    /\ BlockHeaderMatch(Cur(a2))
    /\ a2' = BlockHeader2(a2, Cur(a2))
    /\ Frame2

V2Command ==
    /\ InLoop(a2) /\ ~IsMarkerLine(a2)
    /\ ~TakenAsDefinition2(a2)
    /\ ~a2.in_block
    /\ ~BlockHeaderMatch(Cur(a2))
    /\ CommandMatch(Cur(a2))
    /\ a2' = Command2(a2, Cur(a2))
    /\ Frame2

V2Other ==
    /\ InLoop(a2) /\ ~IsMarkerLine(a2)
    /\ ~TakenAsDefinition2(a2)
    /\ ~a2.in_block
    /\ ~BlockHeaderMatch(Cur(a2))
    /\ ~CommandMatch(Cur(a2))
    /\ a2' = Other2(a2, Cur(a2))
    /\ Frame2

V2Report ==
    /\ a2.pc = "loop" /\ a2.line_num = Len(lines)
    /\ a2' = Report2(a2)
    /\ Frame2

\* ------------------------------------------------------------------------
\* decodeBase58 (the same function in both files)
\* ------------------------------------------------------------------------
MaxEncodedLen == 3

BASE58_ALPHABET ==
    <<"1", "2", "3", "4", "5", "6", "7", "8", "9", "A",
      "B", "C", "D", "E", "F", "G", "H", "J", "K", "L",
      "M", "N", "P", "Q", "R", "S", "T", "U", "V", "W",
      "X", "Y", "Z", "a", "b", "c", "d", "e", "f", "g",
      "h", "i", "j", "k", "m", "n", "o", "p", "q", "r",
      "s", "t", "u", "v", "w", "x", "y", "z">>

\* BASE58_MAP: the index of char in the alphabet, from 0
BASE58_MAP == [c \in {BASE58_ALPHABET[i] : i \in 1..Len(BASE58_ALPHABET)} |->
                 (CHOOSE i \in 1..Len(BASE58_ALPHABET) :
                      BASE58_ALPHABET[i] = c) - 1]

BASE == Len(BASE58_ALPHABET)

\* The characters the arguments are made of: six of the alphabet, the
\* four look-alikes it leaves out and a blank
EncodedChars == {"1", "2", "9", "A", "a", "z", "0", "O", "I", "l", " "}

RECURSIVE StringsUpTo(_)
StringsUpTo(n) ==
    IF n = 0 THEN {<<>>}
    ELSE LET shorter == StringsUpTo(n - 1)
         IN  shorter \cup {Append(t, c) : t \in shorter, c \in EncodedChars}

\* The arguments: strings, and values that are no strings, falsy (None, 0,
\* an empty list) or truthy (5, a list, bytes)
EncodedArgs ==
    {[is_str |-> TRUE, truthy |-> (t # <<>>), chars |-> t] :
        t \in StringsUpTo(MaxEncodedLen)}
    \cup {[is_str |-> FALSE, truthy |-> b, chars |-> <<>>] : b \in BOOLEAN}

\* the call: decoded = 0, multi = 1 are set when the guard has passed
Call(encoded) ==
    [pc |-> "call", encoded |-> encoded, taken |-> 0,
     decoded |-> 0, multi |-> 1, result |-> 0]

\* Mutant: the characters are taken from the left
ForwardAt(chars, taken) == chars[taken + 1]

\* the next char of "for char in reversed(encoded)" when taken chars
\* have been consumed
ReversedAt(chars, taken) == chars[Len(chars) - taken]

\* what a step of decodeBase58 leaves alone
FrameB58 ==
    UNCHANGED <<lines, eol_bytes, final_newline, readable, a1, a2, prev1>>

\* if not encoded or not isinstance(encoded, str): return -1
B58Reject ==
    /\ b58.pc = "call"
    /\ ~b58.encoded.truthy \/ ~b58.encoded.is_str
    /\ b58' = [b58 EXCEPT !.pc = "returned", !.result = -1]
    /\ FrameB58

B58Enter ==
    /\ b58.pc = "call"
    /\ b58.encoded.truthy /\ b58.encoded.is_str
    /\ b58' = [b58 EXCEPT !.pc = "loop"]
    /\ FrameB58

\* digit = BASE58_MAP.get(char); decoded += digit * multi; multi *= BASE
B58Digit ==
    /\ b58.pc = "loop" /\ b58.taken < Len(b58.encoded.chars)
    /\ LET char == ReversedAt(b58.encoded.chars, b58.taken)
       IN  /\ char \in DOMAIN BASE58_MAP
           /\ b58' = [b58 EXCEPT !.taken = @ + 1,
                                 !.decoded = @ + BASE58_MAP[char] * b58.multi,
                                 !.multi = @ * BASE]
    /\ FrameB58

\* if digit is None: return -1
B58Invalid ==
    /\ b58.pc = "loop" /\ b58.taken < Len(b58.encoded.chars)
    /\ ReversedAt(b58.encoded.chars, b58.taken) \notin DOMAIN BASE58_MAP
    /\ b58' = [b58 EXCEPT !.pc = "returned", !.result = -1]
    /\ FrameB58

\* return decoded
B58Return ==
    /\ b58.pc = "loop" /\ b58.taken = Len(b58.encoded.chars)
    /\ b58' = [b58 EXCEPT !.pc = "returned", !.result = b58.decoded]
    /\ FrameB58

InitB58 ==
    /\ lines = <<>> /\ eol_bytes = 1 /\ final_newline = TRUE
    /\ readable = TRUE
    /\ a1 = Stats1Init /\ a2 = Stats2Init /\ prev1 = NoRun
    /\ b58 \in {Call(e) : e \in EncodedArgs}

NextB58 == B58Reject \/ B58Enter \/ B58Digit \/ B58Invalid \/ B58Return

SpecB58 == InitB58 /\ [][NextB58]_vars

\* analyze_patch.py run twice on the file
NextAgain ==
    \/ V1Open \/ V1OpenFail \/ V1Marker \/ V1BlockBody \/ V1Definition
    \/ V1BlockHeader \/ V1Command \/ V1Other \/ V1Report \/ V1Again

SpecAgain == Init /\ [][NextAgain]_vars

Next ==
    \/ V1Open \/ V1OpenFail \/ V1Marker \/ V1BlockBody \/ V1Definition
    \/ V1BlockHeader \/ V1Command \/ V1Other \/ V1Report
    \/ V2Open \/ V2OpenFail \/ V2Marker \/ V2Definition
    \/ V2DefinitionNoContent \/ V2BlockBody \/ V2BlockHeader
    \/ V2Command \/ V2Other \/ V2Report

Spec == Init /\ [][Next]_vars

\* ------------------------------------------------------------------------
\* Properties
\* ------------------------------------------------------------------------
Done1 == a1.pc = "done"
Done2 == a2.pc = "done"

IdX == <<"@", "x">>

\* Number of processed lines whose branch is one of K
CountKind(a, K) == Cardinality({j \in 1..Len(a.kinds) : a.kinds[j] \in K})

\* The line has the shape of a definition for analyzer 2 / analyzer 1
DefShape2(line) == DefMatch(line) \/ DefNoContentMatch(line)
DefShape1(line) == DefMatch(line)

\* Line j is the compression marker on the first line
MarkerAt(j) == j = 1 /\ lines[1] = Marker

\* Among the lines analyzer 2 has processed, one that is not the first-line
\* marker does not have the shape of a definition
SeenNonDefinition2 ==
    \E j \in 1..a2.line_num : ~DefShape2(lines[j]) /\ ~MarkerAt(j)

SeenNonDefinition1 ==
    \E j \in 1..a1.line_num : ~DefShape1(lines[j]) /\ ~MarkerAt(j)

\* C1: in analyzer 2, once a line other than the first-line marker has
\* failed to match the definition shape, no step changes defined_vars,
\* definition_lines, definition_size_b, the H2 counter, full_line_vars or
\* fragment_vars, whatever the shape of the later lines.
C1_NoDefinitionAfterFirstNonDefinition ==
    [][SeenNonDefinition2 =>
         /\ a2'.defined_vars = a2.defined_vars
         /\ a2'.definition_lines = a2.definition_lines
         /\ a2'.definition_size_b = a2.definition_size_b
         /\ a2'.definition_at_overhead_b = a2.definition_at_overhead_b
         /\ a2'.full_line_vars = a2.full_line_vars
         /\ a2'.fragment_vars = a2.fragment_vars]_vars

\* A definition-shaped line was processed at top level after the
\* definitions had ended, and was counted as 'other'
C1_Witness ==
    \E j \in 2..a2.line_num :
        /\ DefMatch(lines[j])
        /\ a2.kinds[j] = "other"
        /\ \E i \in 1..(j - 1) : ~DefShape2(lines[i]) /\ ~MarkerAt(i)

\* C2: in analyzer 1, once a line other than the first-line marker has
\* failed to match the definition shape, a step made outside a block does
\* not record a definition: definition_lines, definition_size_b and the H2
\* counter do not change.
C2_NoLateDefinitionV1 ==
    [][(SeenNonDefinition1 /\ ~a1.in_block) =>
         /\ a1'.defined_vars = a1.defined_vars
         /\ a1'.definition_lines = a1.definition_lines
         /\ a1'.definition_size_b = a1.definition_size_b
         /\ a1'.definition_at_overhead_b = a1.definition_at_overhead_b]_vars

\* The lines after a block header with count N > 0 that has at least N
\* lines after it: the N next ones are block-body lines, the one after them
\* is handled by a top-level branch; and the counters count the branches.
BlockRule(a) ==
    /\ \A h \in 1..a.line_num :
         LET N == BlockHeaderCount(lines[h])
         IN  (a.kinds[h] = "header" /\ N > 0 /\ h + N <= Len(lines)) =>
               /\ \A j \in (h + 1)..(h + N) :
                    j <= a.line_num => a.kinds[j] = "body"
               /\ h + N + 1 <= a.line_num =>
                    a.kinds[h + N + 1] \in {"def", "header", "cmd", "other"}
    /\ a.definition_lines = CountKind(a, {"def"})
    /\ a.other_lines = CountKind(a, {"other"})
    /\ a.command_lines = CountKind(a, {"header", "cmd", "body"})
    /\ a.definition_at_overhead_b = CountKind(a, {"def"})

\* C3: in both analyzers the N lines after a block header of count N > 0
\* are block-body lines whatever their shape (none is a definition, a
\* header or 'other'), and line N+1 is classified at top level again.
C3_BlockBodyLines == BlockRule(a1) /\ BlockRule(a2)

\* Both analyzers went through a block whose body line has the shape of a
\* definition or of a block header, and handled the line after the block
C3_Witness ==
    \E h \in 1..Len(lines) :
        LET N == BlockHeaderCount(lines[h])
        IN  /\ h + 1 <= a1.line_num /\ h + 1 <= a2.line_num
            /\ a1.kinds[h] = "header" /\ a2.kinds[h] = "header"
            /\ N > 0
            /\ h + N + 1 <= a1.line_num /\ h + N + 1 <= a2.line_num
            /\ DefMatch(lines[h + 1]) \/ BlockHeaderMatch(lines[h + 1])

\* Scenario A: "@x hello", "1 A+ 1", "a @x"
ScenarioA == <<LDefHello, LHeader1, LBodyRef>>

ScenarioACommon ==
    /\ a2.defined_vars = [v \in {IdX} |-> <<"h", "e", "l", "l", "o">>]
    /\ a2.fragment_vars = {IdX}
    /\ a2.full_line_vars = {}
    /\ a2.block_prefix_overhead_b = 2
    /\ a2.total_replaced_bytes = 5
    /\ a2.fragment_replaced_b = 5
    /\ a2.def_cost_fragment_b = 7

\* C4 as stated: on scenario A the reference @x costs 3 bytes and the
\* fragment net savings is 5 - (7 + 3) = -5.
C4_ScenarioA_AsStated ==
    (lines = ScenarioA /\ Done2) =>
        /\ ScenarioACommon
        /\ a2.total_reference_cost_b = 3
        /\ a2.fragment_ref_cost_b = 3
        /\ a2.net_savings_fragment = 0 - 5

\* C4 amended: on scenario A the reference @x costs 2 bytes (sigil and
\* one id character) and the fragment net savings is 5 - (7 + 2) = -4.
C4_ScenarioA ==
    (lines = ScenarioA /\ Done2) =>
        /\ ScenarioACommon
        /\ a2.total_reference_cost_b = 2
        /\ a2.fragment_ref_cost_b = 2
        /\ a2.net_savings_fragment = 0 - 4

C4_Witness == lines = ScenarioA /\ Done2

\* C5: in analyzer 2 full_line_vars and fragment_vars are disjoint, and
\* the bucket of every defined id is the one the heuristic gives for the
\* content of its last definition.
C5_OneClassificationLastWins ==
    /\ a2.full_line_vars \cap a2.fragment_vars = {}
    /\ \A v \in DOMAIN a2.defined_vars :
         (v \in a2.full_line_vars) <=> IsFullLine(a2.defined_vars[v])

\* definition_size_b + command_size_b + other_size_b
CountedBytes(a) == a.definition_size_b + a.command_size_b + a.other_size_b

\* The bytes of the first-line marker, which no size counter receives
MarkerBytes(a) == IF a.compression_flag THEN 1 ELSE 0

\* C6 as stated: at the end of the pass the three size counters sum to at
\* most total_size_b, and to exactly total_size_b once one byte is added
\* for each terminated line.
C6_SizesReconcile_AsStated ==
    /\ Done1 =>
         /\ CountedBytes(a1) <= a1.total_size_b
         /\ CountedBytes(a1) + TerminatedLines(lines, final_newline)
              = a1.total_size_b
    /\ Done2 =>
         /\ CountedBytes(a2) <= a2.total_size_b
         /\ CountedBytes(a2) + TerminatedLines(lines, final_newline)
              = a2.total_size_b

\* C6 amended: at the end of the pass the three size counters sum to at
\* most total_size_b, and to exactly total_size_b once the bytes of every
\* line terminator (1 for \n, 2 for \r\n) and the one byte of the
\* first-line marker, when the compression flag is set, are added.
C6_SizesReconcile ==
    /\ Done1 =>
         /\ CountedBytes(a1) <= a1.total_size_b
         /\ CountedBytes(a1)
              + eol_bytes * TerminatedLines(lines, final_newline)
              + MarkerBytes(a1) = a1.total_size_b
    /\ Done2 =>
         /\ CountedBytes(a2) <= a2.total_size_b
         /\ CountedBytes(a2)
              + eol_bytes * TerminatedLines(lines, final_newline)
              + MarkerBytes(a2) = a2.total_size_b

\* Both passes ended on a \r\n file that starts with the marker and holds
\* a definition with a two-byte character
C6_Witness ==
    /\ Done1 /\ Done2
    /\ a1.compression_flag /\ a2.compression_flag
    /\ eol_bytes = 2
    /\ \E j \in 2..Len(lines) : lines[j] = LDefFull

\* The step of analyzer a (a to b) changes at most total_lines, line_num
\* and the branch record
OnlyCountsTheLine(a, b) ==
    [b EXCEPT !.compression_flag = a.compression_flag,
              !.total_lines = a.total_lines,
              !.line_num = a.line_num,
              !.kinds = a.kinds] = a

\* C7: a step on a first line that is exactly '~' sets the compression
\* flag, adds 1 to total_lines and changes no other counter, table or
\* count; and the flag is set by no step on any other line.
C7_MarkerLine ==
    [][/\ (InLoop(a1) /\ a1.line_num = 0 /\ lines[1] = Marker /\ a1' # a1) =>
            /\ a1'.compression_flag
            /\ a1'.total_lines = a1.total_lines + 1
            /\ OnlyCountsTheLine(a1, a1')
       /\ (InLoop(a2) /\ a2.line_num = 0 /\ lines[1] = Marker /\ a2' # a2) =>
            /\ a2'.compression_flag
            /\ a2'.total_lines = a2.total_lines + 1
            /\ OnlyCountsTheLine(a2, a2')
       /\ (a1'.compression_flag # a1.compression_flag) =>
            (a1.line_num = 0 /\ lines[1] = Marker)
       /\ (a2'.compression_flag # a2.compression_flag) =>
            (a2.line_num = 0 /\ lines[1] = Marker)]_vars

\* Both analyzers set the flag on the first line, and both went over a
\* later '~' line
C7_Witness ==
    /\ a1.compression_flag /\ a2.compression_flag
    /\ \E j \in 2..Len(lines) :
         lines[j] = Marker /\ j <= a1.line_num /\ j <= a2.line_num

\* C8: at the end of the pass the unused set is a subset of the defined
\* ids and the dead-weight total is at most definition_size_b.
C8_UnusedWithinDefinitions ==
    /\ Done1 =>
         /\ a1.unused_vars \subseteq DOMAIN a1.defined_vars
         /\ a1.unused_size_b <= a1.definition_size_b
    /\ Done2 =>
         /\ a2.unused_vars \subseteq DOMAIN a2.defined_vars
         /\ a2.unused_size_b <= a2.definition_size_b

\* Both passes ended with stray definitions, analyzer 2 with a dead weight
\* that equals the size of its definitions
C8_Witness ==
    /\ Done1 /\ Done2
    /\ a1.unused_vars # {} /\ a2.unused_vars # {}
    /\ a2.unused_size_b = a2.definition_size_b

\* The id v is written as a reference in s: sigil, then the longest run of
\* id characters
OccursIn(v, s) ==
    \E i \in 1..Len(s) :
        /\ s[i] = "@"
        /\ RunLen(WordChars, s, i + 1) >= 1
        /\ SubSeq(s, i, i + RunLen(WordChars, s, i + 1)) = v

\* v occurs in a standalone command line or in a block-body line
Referenced(a, v) ==
    \E j \in 1..Len(a.kinds) :
        a.kinds[j] \in {"cmd", "body"} /\ OccursIn(v, lines[j])

RECURSIVE StrayBytes(_, _)
\* 1 + 1 + byte length of the content, summed over the ids of S
StrayBytes(defs, S) ==
    IF S = {} THEN 0
    ELSE LET v == CHOOSE u \in S : TRUE
         IN  (2 + SumBytes(<<defs[v]>>)) + StrayBytes(defs, S \ {v})

StrayRule(a) ==
    LET stray == {v \in DOMAIN a.defined_vars : ~Referenced(a, v)}
    IN  /\ a.unused_vars = stray
        /\ a.unused_size_b = StrayBytes(a.defined_vars, stray)

\* C9: at the end of the pass the stray ids are exactly the defined ids
\* that occur as a reference in no standalone command line and in no
\* block-body line, and the dead weight is the sum of 1 + 1 + content
\* bytes over them.
C9_StrayDefinitions == (Done1 => StrayRule(a1)) /\ (Done2 => StrayRule(a2))

\* Both passes ended with one id stray and another one referenced in a
\* standalone command line or a block-body line
C9_Witness ==
    /\ Done1 /\ Done2
    /\ \E u, v \in DOMAIN a1.defined_vars \cap DOMAIN a2.defined_vars :
         /\ u \in a1.unused_vars /\ u \in a2.unused_vars
         /\ v \notin a1.unused_vars /\ v \notin a2.unused_vars
         /\ Referenced(a1, v) /\ Referenced(a2, v)

\* C10: for a file of more than 0 bytes the overhead total is the sum of
\* H1..H4 (H3 one byte per reference in analyzer 1, the token bytes in
\* analyzer 2), at least 0 and at most total_size_b.
C10_OverheadWithinFile ==
    /\ (Done1 /\ a1.total_size_b > 0) =>
         /\ a1.total_overhead = a1.block_prefix_overhead_b
              + a1.definition_at_overhead_b + a1.command_at_overhead_b
              + a1.literal_gap_overhead_b
         /\ 0 <= a1.total_overhead
         /\ a1.total_overhead <= a1.total_size_b
    /\ (Done2 /\ a2.total_size_b > 0) =>
         /\ a2.total_overhead = a2.block_prefix_overhead_b
              + a2.definition_at_overhead_b + a2.total_reference_cost_b
              + a2.literal_gap_overhead_b
         /\ 0 <= a2.total_overhead
         /\ a2.total_overhead <= a2.total_size_b

\* Both passes ended on a file of more than 0 bytes with overhead from
\* block prefixes, references and literal gaps, the references costing
\* more in analyzer 2 than in analyzer 1
C10_Witness ==
    /\ Done1 /\ Done2
    /\ a1.total_size_b > 0 /\ a2.total_size_b > 0
    /\ a1.block_prefix_overhead_b > 0 /\ a2.block_prefix_overhead_b > 0
    /\ a1.command_at_overhead_b > 0 /\ a1.literal_gap_overhead_b > 0
    /\ a2.total_reference_cost_b > 0 /\ a2.literal_gap_overhead_b > 0
    /\ a2.total_reference_cost_b > a1.command_at_overhead_b

\* The places of s where a reference starts: a sigil followed by at least
\* one id character
RefPositions(s) ==
    {i \in 1..Len(s) : s[i] = "@" /\ RunLen(WordChars, s, i + 1) >= 1}

\* The reference that starts at place i of s
TokenAt(s, i) == SubSeq(s, i, i + RunLen(WordChars, s, i + 1))

RECURSIVE TokenBytes(_, _)
\* byte length of the references of s that start at the places of P
TokenBytes(s, P) ==
    IF P = {} THEN 0
    ELSE LET i == CHOOSE k \in P : TRUE
         IN  SumBytes(<<TokenAt(s, i)>>) + TokenBytes(s, P \ {i})

RECURSIVE ContentBytes(_, _, _)
\* byte length of the contents the references at the places of P stand for
ContentBytes(defs, s, P) ==
    IF P = {} THEN 0
    ELSE LET i == CHOOSE k \in P : TRUE
         IN  SumBytes(<<defs[TokenAt(s, i)]>>) + ContentBytes(defs, s, P \ {i})

\* usage count of v, 0 for an id never seen
CountOf(a, v) ==
    IF v \in DOMAIN a.used_vars_count THEN a.used_vars_count[v] ELSE 0

\* analyzer 2 takes a step over a standalone command line or a block-body
\* line, the two kinds of line it scans for references
ScanStep2 ==
    /\ Len(a2'.kinds) = Len(a2.kinds) + 1
    /\ a2'.kinds[Len(a2'.kinds)] \in {"cmd", "body"}

\* C11: in analyzer 2 an occurrence of an id that has no definition adds 1
\* to the usage count of that id and its token bytes to
\* total_reference_cost_b and nothing to total_replaced_bytes or to the
\* full-line and fragment buckets, and the occurrences after it on the
\* line are still processed: over a scanned line the usage counts grow by
\* the number of occurrences, total_reference_cost_b by the token bytes of
\* all occurrences, and the replaced bytes and bucket costs by the
\* occurrences of defined ids only.
C11_UndefinedReference ==
    [][ScanStep2 =>
         LET line    == lines[a2'.line_num]
             all     == RefPositions(line)
             known   == {i \in all : TokenAt(line, i) \in DOMAIN a2.defined_vars}
             full    == {i \in known : TokenAt(line, i) \in a2.full_line_vars}
             defs    == a2.defined_vars
         IN  /\ \A i \in all :
                   CountOf(a2', TokenAt(line, i)) =
                     CountOf(a2, TokenAt(line, i))
                     + Cardinality({k \in all :
                                      TokenAt(line, k) = TokenAt(line, i)})
             /\ a2'.total_reference_cost_b =
                   a2.total_reference_cost_b + TokenBytes(line, all)
             /\ a2'.total_replaced_bytes =
                   a2.total_replaced_bytes + ContentBytes(defs, line, known)
             /\ a2'.full_line_replaced_b =
                   a2.full_line_replaced_b + ContentBytes(defs, line, full)
             /\ a2'.fragment_replaced_b =
                   a2.fragment_replaced_b
                   + ContentBytes(defs, line, known \ full)
             /\ a2'.full_line_ref_cost_b =
                   a2.full_line_ref_cost_b + TokenBytes(line, full)
             /\ a2'.fragment_ref_cost_b =
                   a2.fragment_ref_cost_b + TokenBytes(line, known \ full)
             /\ a2'.defined_vars = defs]_vars

\* Analyzer 2 has just scanned a line on which a reference to an id that
\* has no definition stands before a reference to a defined id: both were
\* counted, the reference cost covers both and the fragment bucket the
\* defined one only
C11_Witness ==
    /\ a2.pc = "loop" /\ a2.line_num >= 1
    /\ a2.kinds[a2.line_num] = "cmd"
    /\ LET line == lines[a2.line_num]
       IN  \E i, k \in RefPositions(line) :
             /\ i < k
             /\ TokenAt(line, i) \notin DOMAIN a2.defined_vars
             /\ TokenAt(line, k) \in DOMAIN a2.defined_vars
             /\ CountOf(a2, TokenAt(line, i)) = 1
             /\ CountOf(a2, TokenAt(line, k)) = 1
             /\ a2.total_reference_cost_b =
                  SumBytes(<<TokenAt(line, i)>>) + SumBytes(<<TokenAt(line, k)>>)
             /\ a2.fragment_ref_cost_b = SumBytes(<<TokenAt(line, k)>>)
             /\ a2.full_line_ref_cost_b = 0


RECURSIVE ReplacedBytes(_, _)
\* usage count times content bytes, summed over the defined ids of S
ReplacedBytes(a, S) ==
    IF S = {} THEN 0
    ELSE LET v == CHOOSE u \in S : TRUE
         IN  CountOf(a, v) * SumBytes(<<a.defined_vars[v]>>)
             + ReplacedBytes(a, S \ {v})

\* C12: when analyzer 2 has ended, total_replaced_bytes is the sum over the
\* defined ids of usage count times the byte length of the content, so an
\* id used k times counts k times.
C12_ReplacedBytesMultiplicity ==
    Done2 => a2.total_replaced_bytes =
               ReplacedBytes(a2, DOMAIN a2.defined_vars)

\* Analyzer 2 ended on a file where a defined id with content is used
\* twice and was credited twice
C12_Witness ==
    /\ Done2
    /\ \E v \in DOMAIN a2.defined_vars :
         /\ CountOf(a2, v) = 2
         /\ SumBytes(<<a2.defined_vars[v]>>) > 0
         /\ a2.total_replaced_bytes = 2 * SumBytes(<<a2.defined_vars[v]>>)


\* The rule for a full-line content: more than 5 characters, and a
\* whitespace character first or one of } and ; last
FullLineRule(content) ==
    /\ Len(content) > 5
    /\ \/ content[1] \in SpaceChars
       \/ content[Len(content)] \in {"}", ";"}

\* analyzer 2 takes a step over a line that it records as a definition
DefinitionStep2 ==
    /\ Len(a2'.kinds) = Len(a2.kinds) + 1
    /\ a2'.kinds[Len(a2'.kinds)] = "def"

\* C13: when analyzer 2 has recorded a definition, its id is classified
\* full-line exactly when the content is longer than 5 characters and
\* starts with a whitespace character or ends with } or ;, and is
\* classified fragment in every other case, the empty content with or
\* without a trailing separator included.
C13_FullLineExactlyByRule ==
    [][DefinitionStep2 =>
         LET line    == lines[a2'.line_num]
             bare    == RunLen(WordChars, line, 2) = Len(line) - 1
             id      == IF bare THEN line ELSE DefName(line)
             content == IF bare THEN <<>> ELSE DefContent(line)
         IN  /\ id \in a2'.full_line_vars <=> FullLineRule(content)
             /\ id \in a2'.fragment_vars <=> ~FullLineRule(content)]_vars


\* The counters that both analyzers keep
CommonCounters(a) ==
    <<a.total_lines, a.compression_flag,
      a.definition_lines, a.definition_size_b,
      a.command_lines, a.command_size_b,
      a.other_lines, a.other_size_b,
      a.block_prefix_overhead_b, a.definition_at_overhead_b,
      a.literal_gap_overhead_b>>

\* C14: when both analyzers have ended on the same file, total_lines, the
\* compression flag, the definition, command and other lines and sizes,
\* H1, H2, H4 and the set of stray ids are the same in both.
C14_CommonCountersAgree ==
    (Done1 /\ Done2) =>
        /\ CommonCounters(a1) = CommonCounters(a2)
        /\ a1.unused_vars = a2.unused_vars


\* nothing of the pass or of the report has happened in a: all fields but
\* pc and total_size_b are as constructed
Untouched(a, init) == [a EXCEPT !.pc = "start", !.total_size_b = 0] = init

\* C15: when the file is missing or cannot be read, each analyzer prints
\* the error and returns: it never enters the loop, processes no line and
\* computes no part of the report.
C15_UnreadableFile ==
    ~readable =>
        /\ a1.pc \in {"start", "error"} /\ Untouched(a1, Stats1Init)
        /\ a2.pc \in {"start", "error"} /\ Untouched(a2, Stats2Init)

\* Both analyzers have returned with the error on a file that has lines
\* but cannot be read
C15_Witness ==
    /\ ~readable /\ lines # <<>>
    /\ a1.pc = "error" /\ a2.pc = "error"


\* Analyzer a is at a top-level line that is not the first-line marker
\* and matches none of the definition shape, the block header and the
\* standalone command
AtUnmatchedLine(a, isDef) ==
    /\ InLoop(a) /\ ~a.in_block
    /\ ~MarkerAt(a.line_num + 1)
    /\ ~isDef
    /\ ~BlockHeaderMatch(lines[a.line_num + 1])
    /\ ~CommandMatch(lines[a.line_num + 1])

\* b is a with the line at hand counted as 'other' and nothing else
CountedAsOther(a, b) ==
    b = [a EXCEPT !.total_lines = @ + 1,
                  !.line_num = @ + 1,
                  !.kinds = Append(@, "other"),
                  !.other_lines = @ + 1,
                  !.other_size_b = @ + SumBytes(<<lines[a.line_num + 1]>>)]

\* C16: a step on a top-level line that matches none of definition, block
\* header and standalone command adds 1 to total_lines and to other_lines
\* and the line's bytes to other_size_b, and leaves the block state, the
\* definition table, the usage counts, the four overhead counters and
\* every other counter as they were; references and '#N ' headers on the
\* line are not counted. The pass goes on to the next line, and in
\* analyzer 2 the definitions phase is over after the line.
C16_OtherLineFrame ==
    [][/\ (AtUnmatchedLine(a1, DefShape1(lines[a1.line_num + 1]))
            /\ a1' # a1) =>
              CountedAsOther(a1, a1')
       /\ (AtUnmatchedLine(a2, DefShape2(lines[a2.line_num + 1]))
            /\ a2' # a2) =>
              /\ CountedAsOther(EndDefinitions(a2), a2')
              /\ a2'.pc = "loop"]_vars

\* Both analyzers went over a top-level line of no known shape that holds
\* a reference to a defined id and a '#N ' header, and counted neither
C16_Witness ==
    /\ Done1 /\ Done2
    /\ \E j \in 1..Len(lines) :
         /\ a1.kinds[j] = "other" /\ a2.kinds[j] = "other"
         /\ \E v \in DOMAIN a1.defined_vars \cap DOMAIN a2.defined_vars :
              OccursIn(v, lines[j])
         /\ Gaps(lines[j]) # <<>>
    /\ a1.other_lines = 1 /\ a2.other_lines = 1
    /\ a1.literal_gap_overhead_b = 0 /\ a2.literal_gap_overhead_b = 0
    /\ a1.used_vars_count = EmptyMap /\ a2.used_vars_count = EmptyMap


\* The block counter of a is sound; a header whose count is written 0 is
\* followed by no body line
BlockState(a) ==
    /\ a.block_lines_remaining \in Nat
    /\ a.in_block <=> a.block_lines_remaining > 0
    /\ \A j \in 1..Len(a.kinds) :
         (a.kinds[j] = "header" /\ lines[j][Len(lines[j])] = "0"
          /\ lines[j][Len(lines[j]) - 1] \in SpaceChars) =>
             /\ (j = Len(a.kinds) => ~a.in_block)
             /\ (j < Len(a.kinds) => a.kinds[j + 1] # "body")

\* C19: in both analyzers and in every state block_lines_remaining is a
\* non-negative integer and in_block is true exactly when it is greater
\* than 0; after a block header that declares 0 lines in_block is false,
\* no line is consumed as a body line and the next line is classified as
\* a top-level line.
C19_BlockCounter == BlockState(a1) /\ BlockState(a2)

\* Both analyzers went over a header that declares 0 lines and classified
\* the line after it as a top-level line
C19_Witness ==
    /\ Done1 /\ Done2
    /\ \E j \in 1..(Len(lines) - 1) :
         /\ a1.kinds[j] = "header" /\ a2.kinds[j] = "header"
         /\ lines[j][Len(lines[j])] = "0"
         /\ lines[j][Len(lines[j]) - 1] \in SpaceChars
         /\ a1.kinds[j + 1] \in {"cmd", "other", "header", "def"}
         /\ a2.kinds[j + 1] \in {"cmd", "other", "header"}


\* total_lines of a is the number of lines read and the sum of the line
\* classes
LinesAddUp(a) ==
    /\ a.total_lines = a.line_num
    /\ a.total_lines = Len(a.kinds)
    /\ a.total_lines = a.definition_lines + a.command_lines + a.other_lines
                        + (IF a.compression_flag THEN 1 ELSE 0)

\* C20: in both analyzers, after every processed line total_lines is the
\* number of lines read so far and is definition_lines + command_lines +
\* other_lines, plus 1 when the compression flag is set.
C20_LineCountsAddUp == LinesAddUp(a1) /\ LinesAddUp(a2)

\* Both analyzers are past a marker line, a definition and a block
\* header, with the flag set
C20_Witness ==
    /\ a1.compression_flag /\ a2.compression_flag
    /\ a1.definition_lines = 1 /\ a2.definition_lines = 1
    /\ a1.command_lines = 1 /\ a2.command_lines = 1
    /\ a1.total_lines = 3 /\ a2.total_lines = 3
    /\ a1.kinds[3] = "header" /\ a2.kinds[3] = "header"


RECURSIVE Power(_, _)
Power(b, e) == IF e = 0 THEN 1 ELSE b * Power(b, e - 1)

RECURSIVE PositionalSum(_, _)
\* index(char) * 58^position over the first n characters of s, the
\* position counted from the last character of s, which has position 0
PositionalSum(s, n) ==
    IF n = 0 THEN 0
    ELSE BASE58_MAP[s[n]] * Power(58, Len(s) - n) + PositionalSum(s, n - 1)

\* the argument is empty, is no string or has a character that is not in
\* the alphabet
NotDecodable(e) ==
    \/ ~e.is_str
    \/ e.chars = <<>>
    \/ \E i \in 1..Len(e.chars) : e.chars[i] \notin DOMAIN BASE58_MAP

\* C17: decodeBase58 never raises: a call that has not returned can take
\* a step; it returns -1 exactly when the argument is empty, is no string
\* or has a character outside the alphabet of 58 characters, and for a
\* non-empty string over the alphabet it returns the sum of index(char) *
\* 58^position, position 0 at the last character, which is at least 0 and
\* so never the sentinel.
C17_DecodeBase58 ==
    /\ b58.pc \in {"call", "loop"} => ENABLED NextB58
    /\ b58.pc = "returned" =>
         /\ b58.result = -1 <=> NotDecodable(b58.encoded)
         /\ ~NotDecodable(b58.encoded) =>
              /\ b58.result = PositionalSum(b58.encoded.chars,
                                            Len(b58.encoded.chars))
              /\ b58.result >= 0

\* A call has returned the value of a string of three characters of the
\* alphabet, the first of them not '1', which lies beyond 58 * 58
C17_Witness ==
    /\ b58.pc = "returned"
    /\ Len(b58.encoded.chars) = 3
    /\ b58.result >= 58 * 58


\* C18: when analyze_patch.py has run twice on the same file, the second
\* run ends with the same statistics as the first: every counter, the
\* definition table, the usage counts, the set of stray ids and the ids
\* shown of it, in the same order.
C18_SameReportTwice ==
    (prev1 # NoRun /\ a1.pc = "done") => a1 = prev1


\* The three definition tables of analyzer 2
Tables2(a) == <<a.defined_vars, a.full_line_vars, a.fragment_vars>>

\* analyzer 2 has scanned a standalone command line or a block-body line
Scanned2 == \E j \in 1..Len(a2.kinds) : a2.kinds[j] \in {"cmd", "body"}

\* C21: in analyzer 2 the definition tables are complete when references
\* are evaluated: a step that scans a standalone command line or a
\* block-body line finds defined_vars, full_line_vars and fragment_vars as
\* they are at the end of the pass, that is, neither that step nor any
\* step after it changes them; and inside a block the definitions phase
\* has ended.
C21_TablesCompleteWhenScanned ==
    [][/\ (ScanStep2 \/ Scanned2) => Tables2(a2') = Tables2(a2)
       /\ a2.in_block => ~a2.parsing_definitions
       /\ a2'.in_block => ~a2'.parsing_definitions]_vars

\* Analyzer 2 ended on a file with a definition, then a scanned line that
\* refers to it, then a line of the definition shape that was not
\* recorded
C21_Witness ==
    /\ Done2
    /\ Len(lines) = 3
    /\ a2.kinds[1] = "def"
    /\ a2.kinds[2] \in {"cmd", "body"}
    /\ \E v \in DOMAIN a2.defined_vars : OccursIn(v, lines[2])
    /\ DefShape2(lines[3])
    /\ a2.kinds[3] # "def"


RECURSIVE UndefinedBytes(_, _)
\* token bytes of the occurrences of ids without definition on the first
\* n lines, the scanned lines only
UndefinedBytes(a, n) ==
    IF n = 0 THEN 0
    ELSE (IF a.kinds[n] \in {"cmd", "body"}
          THEN TokenBytes(lines[n],
                 {i \in RefPositions(lines[n]) :
                     TokenAt(lines[n], i) \notin DOMAIN a.defined_vars})
          ELSE 0)
         + UndefinedBytes(a, n - 1)

\* C22: in analyzer 2, after every processed line total_replaced_bytes is
\* full_line_replaced_b + fragment_replaced_b, and total_reference_cost_b
\* is full_line_ref_cost_b + fragment_ref_cost_b + the token bytes of the
\* occurrences of undefined ids; at the end the two definition costs sum
\* to 2 + content bytes over the defined ids, and the total net savings
\* are the full-line plus the fragment net savings and are
\* total_replaced_bytes minus the total cost.
C22_BucketsAddUp ==
    /\ a2.total_replaced_bytes =
          a2.full_line_replaced_b + a2.fragment_replaced_b
    /\ a2.total_reference_cost_b =
          a2.full_line_ref_cost_b + a2.fragment_ref_cost_b
          + UndefinedBytes(a2, Len(a2.kinds))
    /\ Done2 =>
         /\ a2.def_cost_full_b + a2.def_cost_fragment_b =
               StrayBytes(a2.defined_vars, DOMAIN a2.defined_vars)
         /\ a2.total_savings = a2.net_savings_full + a2.net_savings_fragment
         /\ a2.total_savings = a2.total_replaced_bytes - a2.total_cost

\* Analyzer 2 ended on a file where a defined id with content and an
\* undefined id are referenced: bytes were replaced, the reference cost
\* exceeds that of the two buckets, and there is a definition cost
C22_Witness ==
    /\ Done2
    /\ a2.total_replaced_bytes > 0
    /\ a2.total_reference_cost_b >
          a2.full_line_ref_cost_b + a2.fragment_ref_cost_b
    /\ a2.full_line_ref_cost_b + a2.fragment_ref_cost_b > 0
    /\ a2.def_cost_full_b + a2.def_cost_fragment_b > 0
    /\ a2.total_savings # 0


\* the step from a to b has handled a line as a definition or as a block
\* header
RecordedStep(a, b) ==
    /\ Len(b.kinds) = Len(a.kinds) + 1
    /\ b.kinds[Len(b.kinds)] \in {"def", "header"}

\* usage counts, H1 and H4 are the same in a and b
NotScanned(a, b) ==
    /\ b.used_vars_count = a.used_vars_count
    /\ b.block_prefix_overhead_b = a.block_prefix_overhead_b
    /\ b.literal_gap_overhead_b = a.literal_gap_overhead_b

\* every defined id that occurs in no scanned line is stray, whatever the
\* contents of the definitions hold
StrayDespiteContents(a) ==
    \A v \in DOMAIN a.defined_vars : ~Referenced(a, v) => v \in a.unused_vars

\* C23: in both analyzers a step that records a definition or a block
\* header scans nothing: the usage counts, H1, H3 and H4, and in analyzer
\* 2 the replaced-bytes and reference-cost sums, stay as they are; so at
\* the end an id that is referenced only inside the content of another
\* definition is stray.
C23_DefinitionsAndHeadersNotScanned ==
    [][/\ RecordedStep(a1, a1') =>
            /\ NotScanned(a1, a1')
            /\ a1'.command_at_overhead_b = a1.command_at_overhead_b
       /\ RecordedStep(a2, a2') =>
            /\ NotScanned(a2, a2')
            /\ a2'.total_reference_cost_b = a2.total_reference_cost_b
            /\ a2'.total_replaced_bytes = a2.total_replaced_bytes
            /\ a2'.full_line_replaced_b = a2.full_line_replaced_b
            /\ a2'.fragment_replaced_b = a2.fragment_replaced_b
            /\ a2'.full_line_ref_cost_b = a2.full_line_ref_cost_b
            /\ a2'.fragment_ref_cost_b = a2.fragment_ref_cost_b
       /\ (a1'.pc = "done" => StrayDespiteContents(a1'))
       /\ (a2'.pc = "done" => StrayDespiteContents(a2'))]_vars

\* Both analyzers ended on a file with a block header and a definition
\* whose content holds a gap header and a reference to another defined
\* id: that id is stray and nothing was counted
C23_Witness ==
    /\ Done1 /\ Done2
    /\ \E j, h \in 1..Len(lines) :
         /\ a1.kinds[j] = "def" /\ a2.kinds[j] = "def"
         /\ a1.kinds[h] = "header" /\ a2.kinds[h] = "header"
         /\ Gaps(lines[j]) # <<>>
         /\ \E v \in DOMAIN a1.defined_vars \cap DOMAIN a2.defined_vars :
              /\ OccursIn(v, lines[j])
              /\ v \in a1.unused_vars /\ v \in a2.unused_vars
    /\ a1.used_vars_count = EmptyMap /\ a2.used_vars_count = EmptyMap
    /\ a1.literal_gap_overhead_b = 0 /\ a2.literal_gap_overhead_b = 0
    /\ a2.total_reference_cost_b = 0


====
